---------------------------- MODULE Spec2Model ----------------------------
(***************************************************************************)
(* Model of streamlit_app.py: a Streamlit page that gates a YouTube        *)
(* "most popular videos" list behind a session login, fetches the list     *)
(* through a 60 s memo cache, looks channel subscriber counts up in        *)
(* batches of 50 through a 120 s memo cache, and renders one row per item. *)
(*                                                                         *)
(* Two specifications:                                                     *)
(*   Spec      - the page: user events, then one script run per event      *)
(*   SpecBatch - get_channel_subscribers alone, on inputs of up to MaxIds  *)
(*               distinct channel IDs, invoked repeatedly                  *)
(*                                                                         *)
(* Texts that are upper-cased (region codes) are sequences of one-letter   *)
(* strings; channel IDs are integers, 0 standing for None and -1 for "".   *)
(***************************************************************************)
EXTENDS Integers, Sequences, FiniteSets

VARIABLES
  API_KEY,            \* line 26, resolved configuration
  REGION_CODE,        \* line 27, the configured value before `or "KR"`
  EXPECTED_USER,      \* line 146
  EXPECTED_PASS,      \* line 147
  session_state,      \* st.session_state: a map whose keys come and go
  max_count,          \* value of the count selectbox (line 223)
  login_btn,          \* st.button("login") of the running script (line 164)
  refresh,            \* st.button("refresh") of the running script (line 225)
  pc,                 \* position of the script run
  region,             \* line 221
  resp,               \* last response of the videos endpoint (line 75)
  fetched,            \* outcome of the last get_most_popular_videos call
  items,              \* line 245
  channel_ids,        \* line 259 / argument of get_channel_subscribers
  unique_ids,         \* line 101
  i,                  \* loop index of line 105
  result,             \* line 102
  subs_map,           \* line 260
  memo,               \* how the last get_channel_subscribers call was answered
  videos_cache,       \* memo of get_most_popular_videos (line 58)
  subscribers_cache,  \* memo of get_channel_subscribers (line 92)
  out,                \* what the running script has done: calls and elements
  since_ok            \* history: seconds since the last successful videos
                      \* call per key, forgotten at 60 s and on refresh

cfg == <<API_KEY, REGION_CODE, EXPECTED_USER, EXPECTED_PASS>>
locals == <<region, resp, fetched, items, channel_ids, unique_ids, i, result, subs_map, memo>>
caches == <<videos_cache, subscribers_cache, since_ok>>
vars == <<cfg, session_state, max_count, login_btn, refresh, pc, locals, caches, out>>

---------------------------------------------------------------------------
(* Bounds of the model *)

\* seconds that pass in one Tick
TickStep == 60
\* largest number of distinct channel IDs handed to the batcher in SpecBatch
MaxIds == 120

---------------------------------------------------------------------------
(* Program constants *)

BatchSize == 50
TTL_VIDEOS == 60
TTL_SUBSCRIBERS == 120

KR == <<"K", "R">>
US == <<"U", "S">>

REGION_CODES ==
  << KR, US, <<"J","P">>, <<"I","N">>, <<"G","B">>,
     <<"D","E">>, <<"F","R">>, <<"B","R">>, <<"M","X">>, <<"C","A">>,
     <<"A","U">>, <<"V","N">>, <<"T","H">>, <<"I","D">>, <<"T","R">>,
     <<"S","A">>, <<"A","E">>, <<"E","S">>, <<"I","T">>, <<"R","U">> >>

COUNT_OPTIONS == <<10, 20, 30, 40, 50>>

---------------------------------------------------------------------------
(* Python helpers *)

None == 0
EmptyId == -1
EmptyMap == [x \in {} |-> 0]

\* truthiness of a channel ID (`if cid`): None and "" are falsy
Truthy(cid) == cid > 0

Range(s) == {s[k] : k \in DOMAIN s}

\* a or b, on texts
Or(a, b) == IF Len(a) > 0 THEN a ELSE b

UpperChar(c) ==
  CASE c = "k" -> "K"
    [] c = "r" -> "R"
    [] c = "u" -> "U"
    [] c = "s" -> "S"
    [] c = "j" -> "J"
    [] c = "p" -> "P"
    [] OTHER -> c

\* str.upper()
Upper(s) == [k \in 1..Len(s) |-> UpperChar(s[k])]

IsUpper(s) == \A k \in 1..Len(s) : s[k] \notin {"k", "r", "u", "s", "j", "p"}

\* dict with key k set to v
Put(d, k, v) == [x \in DOMAIN d \cup {k} |-> IF x = k THEN v ELSE d[x]]

\* dict.pop(k, None)
Pop(d, k) == [x \in DOMAIN d \ {k} |-> d[x]]

\* `if k not in d: d[k] = v`, and a keyed widget registering its default
SetDefault(d, k, v) == IF k \in DOMAIN d THEN d ELSE Put(d, k, v)

Min(a, b) == IF a < b THEN a ELSE b

---------------------------------------------------------------------------
(* The remote API, an opaque HTTP service: what it may answer *)

Video(id, ch) == [id |-> id, channelId |-> ch]

ChartA == <<Video("v1", 1), Video("v2", None), Video("v3", 2), Video("v4", 1)>>
ChartB == <<Video("v2", None)>>

\* the body of a successful videos.list answer
VideoBody(regionCode, maxResults) ==
  CASE regionCode = KR /\ maxResults = 20 -> [kind |-> "videoList", items |-> ChartA]
    [] regionCode = KR /\ maxResults = 10 -> [kind |-> "videoList", items |-> ChartB]
    [] regionCode = US /\ maxResults = 10 -> [kind |-> "videoList", items |-> <<>>]
    [] OTHER -> [kind |-> "videoList"]

\* the answers requests.get may bring back from the videos endpoint
VideoResponses(regionCode, maxResults) ==
  { [status_code |-> 200, json_ok |-> TRUE, text |-> "json",
     json |-> VideoBody(regionCode, maxResults)],
    [status_code |-> 200, json_ok |-> TRUE, text |-> "json",
     json |-> [kind |-> "videoList", error |-> "keyInvalid", items |-> ChartB]],
    [status_code |-> 200, json_ok |-> FALSE, text |-> "<html>", json |-> EmptyMap],
    [status_code |-> 403, json_ok |-> TRUE, text |-> "json",
     json |-> [error |-> "forbidden"]],
    [status_code |-> 500, json_ok |-> FALSE, text |-> "Server Error", json |-> EmptyMap] }

\* the statistics.subscriberCount the channels endpoint reports for a channel:
\* hidden for some channels, not a number for others
SubscriberCount(cid) ==
  CASE cid % 5 = 0 -> [present |-> FALSE, numeric |-> FALSE, n |-> 0]
    [] cid % 7 = 0 -> [present |-> TRUE, numeric |-> FALSE, n |-> 0]
    [] OTHER -> [present |-> TRUE, numeric |-> TRUE, n |-> 1000 + cid]

\* the outcomes of one channels.list call
ChannelOutcomes == {"ok", "http_error", "throws"}

---------------------------------------------------------------------------
(* Memo caches: st.cache_data(ttl = ...) *)

\* an entry that still answers at the age of its ttl
FreshInclusive(entry, ttl) == entry.age <= ttl

\* an entry answers while younger than its ttl
Fresh(entry, ttl) == entry.age < ttl

CacheHit(cache, key, ttl) == key \in DOMAIN cache /\ Fresh(cache[key], ttl)

CacheStore(cache, key, value) == Put(cache, key, [value |-> value, age |-> 0])

\* the cache after d seconds: entries age, and those past their ttl are gone
CacheAfter(cache, d, ttl) ==
  LET aged == [k \in DOMAIN cache |-> [cache[k] EXCEPT !.age = @ + d]]
  IN  [k \in {x \in DOMAIN aged : Fresh(aged[x], ttl)} |-> aged[k]]

\* st.cache_data.clear()
CacheClear(cache) == EmptyMap

\* history of successful videos calls, kept apart from the cache
SinceOkAfter(h, d) ==
  [k \in {x \in DOMAIN h : h[x] + d < 60} |-> h[k] + d]

---------------------------------------------------------------------------
(* get_most_popular_videos, lines 59-89 *)

\* the body without the test of line 86 for an `error` field
get_most_popular_videos_unchecked(r) ==
  IF ~(r.status_code < 400)
    THEN LET data == IF r.json_ok THEN r.json
                     ELSE [error |-> [message |-> r.text]]
         IN  [raised |-> "HTTPError", value |-> <<>>,
              message |-> [text |-> "YouTube API HTTP",
                           status_code |-> r.status_code, data |-> data]]
  ELSE IF ~r.json_ok
    THEN [raised |-> "JSONDecodeError", value |-> <<>>,
          message |-> [text |-> "Expecting value", status_code |-> 0, data |-> EmptyMap]]
  ELSE [raised |-> "none",
        value |-> IF "items" \in DOMAIN r.json THEN r.json.items ELSE <<>>,
        message |-> [text |-> "", status_code |-> 0, data |-> EmptyMap]]

\* the function body on the response of line 75
get_most_popular_videos(r) ==
  IF ~(r.status_code < 400)
    THEN LET data == IF r.json_ok THEN r.json
                     ELSE [error |-> [message |-> r.text]]
         IN  [raised |-> "HTTPError", value |-> <<>>,
              message |-> [text |-> "YouTube API HTTP",
                           status_code |-> r.status_code, data |-> data]]
  ELSE IF ~r.json_ok
    THEN [raised |-> "JSONDecodeError", value |-> <<>>,
          message |-> [text |-> "Expecting value", status_code |-> 0, data |-> EmptyMap]]
  ELSE IF "error" \in DOMAIN r.json
    THEN [raised |-> "RuntimeError", value |-> <<>>,
          message |-> [text |-> "YouTube API Error", status_code |-> 0,
                       data |-> r.json.error]]
  ELSE [raised |-> "none",
        value |-> IF "items" \in DOMAIN r.json THEN r.json.items ELSE <<>>,
        message |-> [text |-> "", status_code |-> 0, data |-> EmptyMap]]

---------------------------------------------------------------------------
(* What the user may type and pick *)

UserInputs == {"", "admin", "guest"}
PassInputs == {"", "s3cret", "guess"}
SelectInputs == {KR, US}
CustomInputs == {<<>>, <<"u", "s">>, <<"K", "r">>}
CountInputs == {10, 20}

Shown(e) == \E k \in DOMAIN out : out[k].e = e

Idle == pc = "idle"

\* a widget event starts a script run from the top, with both buttons unpressed
\* unless the event is the press itself
NoResponse == [status_code |-> 0, json_ok |-> FALSE, text |-> "", json |-> EmptyMap]
NoMessage == [text |-> "", status_code |-> 0, data |-> EmptyMap]
NoFetch == [called |-> FALSE, hit |-> FALSE, key |-> <<>>, raised |-> "none",
            value |-> <<>>, message |-> NoMessage, cold |-> FALSE]

\* the script's own names hold nothing when a run starts
FreshLocals ==
  /\ region' = <<>>
  /\ resp' = NoResponse
  /\ fetched' = NoFetch
  /\ items' = <<>>
  /\ channel_ids' = <<>>
  /\ unique_ids' = <<>>
  /\ i' = 0
  /\ result' = EmptyMap
  /\ subs_map' = EmptyMap
  /\ memo' = "none"

Rerun(login, refr) ==
  /\ pc' = "sidebar"
  /\ login_btn' = login
  /\ refresh' = refr
  /\ out' = <<>>
  /\ FreshLocals

---------------------------------------------------------------------------
(* User events: the widget's value changes, its callback runs, the script
   reruns *)

\* text_input key="_login_user", line 162
TypeLoginUser ==
  /\ Idle /\ Shown("login_form")
  /\ \E u \in UserInputs :
       /\ u # session_state["_login_user"]
       /\ session_state' = Put(session_state, "_login_user", u)
  /\ Rerun(FALSE, FALSE)
  /\ UNCHANGED <<cfg, max_count, caches>>

\* text_input key="_login_pass", line 163
TypeLoginPass ==
  /\ Idle /\ Shown("login_form")
  /\ \E p \in PassInputs :
       /\ p # session_state["_login_pass"]
       /\ session_state' = Put(session_state, "_login_pass", p)
  /\ Rerun(FALSE, FALSE)
  /\ UNCHANGED <<cfg, max_count, caches>>

\* the login button, line 164
ClickLogin ==
  /\ Idle /\ Shown("login_form")
  /\ Rerun(TRUE, FALSE)
  /\ UNCHANGED <<cfg, session_state, max_count, caches>>

\* a logout that resets the flag and keeps the typed values
logoutFlagOnly(ss) == [ss EXCEPT !.authenticated = FALSE]

\* logout(), lines 152-157, the on_click callback of line 175
logout(ss) == Pop(Pop([ss EXCEPT !.authenticated = FALSE], "_login_user"), "_login_pass")

ClickLogout ==
  /\ Idle /\ Shown("logout_button")
  /\ session_state' = logout(session_state)
  /\ Rerun(FALSE, FALSE)
  /\ UNCHANGED <<cfg, max_count, caches>>

\* _on_select_region_change, lines 192-194
OnSelectRegionChange(ss) == Put(ss, "region_custom", Upper(ss.region_sel))

\* the preset selectbox, lines 204-212
SelectRegion ==
  /\ Idle /\ Shown("controls")
  /\ \E c \in SelectInputs :
       /\ c \in Range(REGION_CODES)
       /\ c # session_state.region_sel
       /\ session_state' = OnSelectRegionChange(Put(session_state, "region_sel", c))
  /\ Rerun(FALSE, FALSE)
  /\ UNCHANGED <<cfg, max_count, caches>>

\* _on_custom_region_change, lines 196-198
OnCustomRegionChange(ss) == Put(ss, "region_custom", Upper(Or(ss.region_custom, KR)))

\* the override text_input, lines 214-220
EditCustomRegion ==
  /\ Idle /\ Shown("controls")
  /\ \E t \in CustomInputs :
       /\ Len(t) <= 2
       /\ t # session_state.region_custom
       /\ session_state' = OnCustomRegionChange(Put(session_state, "region_custom", t))
  /\ Rerun(FALSE, FALSE)
  /\ UNCHANGED <<cfg, max_count, caches>>

\* the count selectbox, line 223
SelectCount ==
  /\ Idle /\ Shown("controls")
  /\ \E n \in CountInputs :
       /\ n \in Range(COUNT_OPTIONS)
       /\ n # max_count
       /\ max_count' = n
  /\ Rerun(FALSE, FALSE)
  /\ UNCHANGED <<cfg, session_state, caches>>

\* the refresh button, line 225
ClickRefresh ==
  /\ Idle /\ Shown("controls")
  /\ Rerun(FALSE, TRUE)
  /\ UNCHANGED <<cfg, session_state, max_count, caches>>

\* a rerun with no widget changed (the app's Rerun command)
RerunPage ==
  /\ Idle
  /\ Rerun(FALSE, FALSE)
  /\ UNCHANGED <<cfg, session_state, max_count, caches>>

\* TickStep seconds pass while the page is shown
Tick ==
  /\ Idle
  /\ videos_cache' = CacheAfter(videos_cache, TickStep, TTL_VIDEOS)
  /\ subscribers_cache' = CacheAfter(subscribers_cache, TickStep, TTL_SUBSCRIBERS)
  /\ since_ok' = SinceOkAfter(since_ok, TickStep)
  /\ UNCHANGED <<cfg, session_state, max_count, login_btn, refresh, pc, locals, out>>

---------------------------------------------------------------------------
(* The script, top to bottom *)

Ev(e) == [e |-> e]

\* the test of line 166 without its two configuration checks
CredentialsOkUnconfigured(user, pw) ==
  /\ user = EXPECTED_USER
  /\ pw = EXPECTED_PASS

\* the test of line 166
CredentialsOk(user, pw) ==
  /\ EXPECTED_USER # ""
  /\ EXPECTED_PASS # ""
  /\ user = EXPECTED_USER
  /\ pw = EXPECTED_PASS

\* a gate that lets every session through
GatedNever(ss) == FALSE

\* the test of line 178: the gate stops the script of a session not logged in
Gated(ss) == ~ss.authenticated

\* lines 149-181: the session flag, the sidebar and the gate
Sidebar ==
  /\ pc = "sidebar"
  /\ LET ss0 == SetDefault(session_state, "authenticated", FALSE)
         form == ~ss0.authenticated
         ss1 == IF form
                  THEN SetDefault(SetDefault(ss0, "_login_user", ""), "_login_pass", "")
                  ELSE ss0
     IN  IF form /\ login_btn /\ CredentialsOk(ss1["_login_user"], ss1["_login_pass"])
           THEN \* lines 167-169: st.rerun() starts the script again
                /\ session_state' = [ss1 EXCEPT !.authenticated = TRUE]
                /\ out' = <<>>
                /\ pc' = "sidebar"
           ELSE LET side == IF form
                              THEN <<Ev("login_form")>> \o
                                   (IF login_btn THEN <<Ev("login_error")>> ELSE <<>>)
                              ELSE <<Ev("logout_button")>>
                IN  /\ session_state' = ss1
                    /\ IF Gated(ss1)
                         THEN /\ out' = out \o side \o <<Ev("gate")>>
                              /\ pc' = "idle"
                         ELSE /\ out' = out \o side
                              /\ pc' = "controls"
  /\ login_btn' = FALSE
  /\ UNCHANGED <<cfg, max_count, refresh, locals, caches>>

\* line 27
DEFAULT_REGION == Or(REGION_CODE, KR)

\* the preset taken before the override
EffectiveRegionPresetFirst(ss) == Upper(Or(ss.region_sel, Or(ss.region_custom, KR)))

\* line 221
EffectiveRegion(ss) == Upper(Or(ss.region_custom, Or(ss.region_sel, KR)))

\* lines 183-241: the region keys, the control bar, refresh, the API key guard
Controls ==
  /\ pc = "controls"
  /\ LET ss1 == SetDefault(SetDefault(session_state, "region_sel", KR),
                           "region_custom", Upper(Or(DEFAULT_REGION, KR)))
     IN  /\ session_state' = ss1
         /\ region' = EffectiveRegion(ss1)
  /\ IF refresh
       THEN /\ videos_cache' = CacheClear(videos_cache)
            /\ subscribers_cache' = CacheClear(subscribers_cache)
            /\ since_ok' = EmptyMap
       ELSE UNCHANGED caches
  /\ IF API_KEY = ""
       THEN /\ out' = out \o <<Ev("controls"), Ev("config_error")>>
            /\ pc' = "idle"
       ELSE /\ out' = out \o <<Ev("controls")>>
            /\ pc' = "fetch"
  /\ UNCHANGED <<cfg, max_count, login_btn, refresh, resp, fetched, items,
                 channel_ids, unique_ids, i, result, subs_map, memo>>

\* a handler for requests.HTTPError alone, other exceptions passing as no result
FetchFailedHttpOnly(res) == res.raised = "HTTPError"

\* the handlers of lines 246-251 take every exception of the call
FetchFailed(res) == res.raised # "none"

\* lines 243-259: the cached call of get_most_popular_videos and its handlers
FetchVideos ==
  /\ pc = "fetch"
  /\ LET key == <<API_KEY, region, max_count>>
         hit == CacheHit(videos_cache, key, TTL_VIDEOS)
     IN  \E r \in (IF hit THEN {NoResponse} ELSE VideoResponses(region, max_count)) :
           LET res == IF hit
                        THEN [raised |-> "none", value |-> videos_cache[key].value,
                              message |-> NoMessage]
                        ELSE get_most_popular_videos(r)
               call == IF hit THEN <<>>
                       ELSE <<[e |-> "GET_videos", regionCode |-> region,
                               maxResults |-> max_count, key |-> API_KEY]>>
               stored == ~hit /\ res.raised = "none"
           IN  /\ resp' = r
               /\ fetched' = [called |-> TRUE, hit |-> hit, key |-> key, raised |-> res.raised,
                              value |-> res.value, message |-> res.message,
                              cold |-> videos_cache = EmptyMap /\ subscribers_cache = EmptyMap]
               /\ videos_cache' = IF stored THEN CacheStore(videos_cache, key, res.value)
                                  ELSE videos_cache
               /\ since_ok' = IF stored THEN Put(since_ok, key, 0) ELSE since_ok
               /\ IF FetchFailed(res)
                    THEN /\ out' = out \o call \o
                                   <<[e |-> "error", http |-> (res.raised = "HTTPError"),
                                      message |-> res.message]>>
                         /\ pc' = "idle"
                         /\ UNCHANGED <<items, channel_ids>>
                  ELSE IF res.value = <<>>
                    THEN /\ out' = out \o call \o <<Ev("empty_notice")>>
                         /\ pc' = "idle"
                         /\ UNCHANGED <<items, channel_ids>>
                  ELSE /\ out' = out \o call
                       /\ items' = res.value
                       /\ channel_ids' = [k \in DOMAIN res.value |-> res.value[k].channelId]
                       /\ pc' = "subs"
  /\ UNCHANGED <<cfg, session_state, max_count, login_btn, refresh, region,
                 unique_ids, i, result, subs_map, memo, subscribers_cache>>

---------------------------------------------------------------------------
(* get_channel_subscribers, lines 92-135 *)

\* the set of line 101: the truthy IDs, each once
UniqueIds(ids) == {cid \in Range(ids) : Truthy(cid)}

\* S in ascending order
Ascending(S) ==
  LET rank == [x \in S |-> Cardinality({y \in S : y < x}) + 1]
  IN  [k \in 1..Cardinality(S) |-> CHOOSE x \in S : rank[x] = k]

Reverse(s) == [k \in 1..Len(s) |-> s[Len(s) + 1 - k]]

Rotate(s) == [k \in 1..Len(s) |-> s[((k - 1 + Len(s) \div 2) % Len(s)) + 1]]

\* list(set) of line 101: Python fixes no order; three orders stand for all
ListOfSet(S) == LET a == Ascending(S) IN {a, Reverse(a), Rotate(a)}

\* a slice that takes the end index too: unique_ids[i : i + 51]
BatchInclusive(ids, from) == SubSeq(ids, from + 1, Min(from + BatchSize + 1, Len(ids)))

\* unique_ids[i : i + 50], line 106
Batch(ids, from) == SubSeq(ids, from + 1, Min(from + BatchSize, Len(ids)))

\* lines 123-131 on the channel records of a 2xx answer: a count is kept when
\* the record has an id and a subscriberCount that int() accepts
Extracted(res, batch) ==
  LET kept == {k \in DOMAIN batch :
                 /\ Truthy(batch[k])
                 /\ SubscriberCount(batch[k]).present
                 /\ SubscriberCount(batch[k]).numeric}
      new == {batch[k] : k \in kept}
  IN  [cid \in DOMAIN res \cup new |->
         IF cid \in new THEN SubscriberCount(cid).n ELSE res[cid]]

\* a failure that throws away what the earlier batches gave
AfterFailureDropsAll(res) == EmptyMap

\* lines 114-121 and 132-134: a failed batch is warned about and skipped, and
\* what the earlier batches gave stays
AfterFailure(res) == res

\* the call of line 260 (or of the caller of SpecBatch): the memo, then lines 97-102
GetChannelSubscribers ==
  /\ pc = "subs"
  /\ LET key == <<API_KEY, channel_ids>>
     IN  IF CacheHit(subscribers_cache, key, TTL_SUBSCRIBERS)
           THEN /\ subs_map' = subscribers_cache[key].value
                /\ memo' = "hit"
                /\ pc' = "subs_done"
                /\ UNCHANGED <<unique_ids, i, result, subscribers_cache>>
         ELSE IF channel_ids = <<>>
           THEN /\ subs_map' = EmptyMap
                /\ memo' = "miss"
                /\ subscribers_cache' = CacheStore(subscribers_cache, key, EmptyMap)
                /\ pc' = "subs_done"
                /\ UNCHANGED <<unique_ids, i, result>>
         ELSE /\ \E order \in ListOfSet(UniqueIds(channel_ids)) : unique_ids' = order
              /\ i' = 0
              /\ result' = EmptyMap
              /\ memo' = "miss"
              /\ pc' = "batch"
              /\ UNCHANGED <<subs_map, subscribers_cache>>
  /\ UNCHANGED <<cfg, session_state, max_count, login_btn, refresh, region, resp,
                 fetched, items, channel_ids, videos_cache, since_ok, out>>

\* one turn of the loop of lines 105-134
SubsBatch ==
  /\ pc = "batch"
  /\ i < Len(unique_ids)
  /\ LET batch == Batch(unique_ids, i)
         call == [e |-> "GET_channels", ids |-> batch]
     IN  \E outcome \in ChannelOutcomes :
           IF outcome = "ok"
             THEN /\ result' = Extracted(result, batch)
                  /\ out' = out \o <<call>>
             ELSE /\ result' = AfterFailure(result)
                  /\ out' = out \o <<call, [e |-> "warning", why |-> outcome]>>
  /\ i' = i + BatchSize
  /\ UNCHANGED <<cfg, session_state, max_count, login_btn, refresh, pc, region, resp,
                 fetched, items, channel_ids, unique_ids, subs_map, memo, caches>>

\* line 135, and the memo keeping what was returned
SubsReturn ==
  /\ pc = "batch"
  /\ ~(i < Len(unique_ids))
  /\ subs_map' = result
  /\ subscribers_cache' = CacheStore(subscribers_cache, <<API_KEY, channel_ids>>, result)
  /\ pc' = "subs_done"
  /\ UNCHANGED <<cfg, session_state, max_count, login_btn, refresh, region, resp,
                 fetched, items, channel_ids, unique_ids, i, result, memo, videos_cache,
                 since_ok, out>>

---------------------------------------------------------------------------
(* lines 262-321: the rows *)

\* rows ranked from 0: enumerate(items) without start=1
RowRankedFromZero(k) ==
  [e |-> "row", rank |-> k - 1, id |-> items[k].id,
   subs |-> IF items[k].channelId \in DOMAIN subs_map
              THEN subs_map[items[k].channelId] ELSE None]

\* the row of item k: its rank, its video and the count found for its channel
Row(k) ==
  [e |-> "row", rank |-> k, id |-> items[k].id,
   subs |-> IF items[k].channelId \in DOMAIN subs_map
              THEN subs_map[items[k].channelId] ELSE None]

RenderRows ==
  /\ pc = "subs_done"
  /\ out' = out \o [k \in 1..Len(items) |-> Row(k)] \o <<Ev("done")>>
  /\ pc' = "idle"
  /\ UNCHANGED <<cfg, session_state, max_count, login_btn, refresh, locals, caches>>

---------------------------------------------------------------------------
(* The page *)

Init ==
  /\ API_KEY \in {"", "AIza"}
  /\ REGION_CODE \in {<<>>, <<"u", "s">>}
  /\ EXPECTED_USER \in {"", "admin"}
  /\ EXPECTED_PASS \in {"", "s3cret"}
  /\ session_state = EmptyMap
  /\ max_count = COUNT_OPTIONS[2]
  /\ login_btn = FALSE
  /\ refresh = FALSE
  /\ pc = "sidebar"
  /\ region = <<>>
  /\ resp = NoResponse
  /\ fetched = NoFetch
  /\ items = <<>>
  /\ channel_ids = <<>>
  /\ unique_ids = <<>>
  /\ i = 0
  /\ result = EmptyMap
  /\ subs_map = EmptyMap
  /\ memo = "none"
  /\ videos_cache = EmptyMap
  /\ subscribers_cache = EmptyMap
  /\ since_ok = EmptyMap
  /\ out = <<>>

Next ==
  \/ TypeLoginUser
  \/ TypeLoginPass
  \/ ClickLogin
  \/ ClickLogout
  \/ SelectRegion
  \/ EditCustomRegion
  \/ SelectCount
  \/ ClickRefresh
  \/ RerunPage
  \/ Tick
  \/ Sidebar
  \/ Controls
  \/ FetchVideos
  \/ GetChannelSubscribers
  \/ SubsBatch
  \/ SubsReturn
  \/ RenderRows

Spec == Init /\ [][Next]_vars

---------------------------------------------------------------------------
(* get_channel_subscribers alone: one argument list, called again and again *)

\* n distinct IDs: as they are, each twice, or with None and "" in between
Plain(n) == [k \in 1..n |-> k]
Twice(n) == [k \in 1..(2 * n) |-> ((k - 1) % n) + 1]
Holed(n) == [k \in 1..(2 * n + 1) |->
               IF k % 2 = 0 THEN k \div 2 ELSE IF k % 4 = 1 THEN None ELSE EmptyId]

\* the sizes around a multiple of the batch size, and the largest
Sizes == {n \in 0..MaxIds : n = MaxIds \/ n % BatchSize \in {0, 1, BatchSize - 1}}

BatchInputs == UNION {{Plain(n), Twice(n), Holed(n)} : n \in Sizes}

InitBatch ==
  /\ API_KEY = "AIza"
  /\ REGION_CODE = <<>>
  /\ EXPECTED_USER = "admin"
  /\ EXPECTED_PASS = "s3cret"
  /\ session_state = [authenticated |-> TRUE]
  /\ max_count = COUNT_OPTIONS[2]
  /\ login_btn = FALSE
  /\ refresh = FALSE
  /\ pc = "subs"
  /\ region = <<>>
  /\ resp = NoResponse
  /\ fetched = NoFetch
  /\ items = <<>>
  /\ channel_ids \in BatchInputs
  /\ unique_ids = <<>>
  /\ i = 0
  /\ result = EmptyMap
  /\ subs_map = EmptyMap
  /\ memo = "none"
  /\ videos_cache = EmptyMap
  /\ subscribers_cache = EmptyMap
  /\ since_ok = EmptyMap
  /\ out = <<>>

\* the caller calls again with the same arguments
CallAgain ==
  /\ pc = "subs_done"
  /\ pc' = "subs"
  /\ out' = <<>>
  /\ memo' = "none"
  /\ UNCHANGED <<cfg, session_state, max_count, login_btn, refresh, region, resp,
                 fetched, items, channel_ids, unique_ids, i, result, subs_map, caches>>

\* TickStep seconds pass between two calls
Elapse ==
  /\ pc = "subs_done"
  /\ subscribers_cache' = CacheAfter(subscribers_cache, TickStep, TTL_SUBSCRIBERS)
  /\ UNCHANGED <<cfg, session_state, max_count, login_btn, refresh, pc, locals,
                 videos_cache, since_ok, out>>

NextBatch ==
  \/ GetChannelSubscribers
  \/ SubsBatch
  \/ SubsReturn
  \/ CallAgain
  \/ Elapse

SpecBatch == InitBatch /\ [][NextBatch]_vars

---------------------------------------------------------------------------
(* Vocabulary of the properties *)

LoggedIn == "authenticated" \in DOMAIN session_state /\ session_state.authenticated

\* the places in out of the events named e
At(e) == {k \in DOMAIN out : out[k].e = e}

LastEvent == IF out = <<>> THEN "" ELSE out[Len(out)].e

\* some call went out, or some row was rendered
Content == At("GET_videos") \cup At("GET_channels") \cup At("row")

\* smallest number of batches of 50 that hold n
Ceil50(n) == (n + 49) \div 50

---------------------------------------------------------------------------
(* C1 *)

\* C1: the session flag `authenticated` turns from false to true only in a
\* login run (the script run with the login button pressed) whose submitted
\* username and password equal the configured AUTH_USERNAME and AUTH_PASSWORD,
\* both non-empty; every other login run leaves the flag false and the session
\* state as it was.
C1_LoginOnlyWithConfiguredCredentials ==
  [][ LET good == /\ EXPECTED_USER # "" /\ EXPECTED_PASS # ""
                  /\ "_login_user" \in DOMAIN session_state
                  /\ "_login_pass" \in DOMAIN session_state
                  /\ session_state["_login_user"] = EXPECTED_USER
                  /\ session_state["_login_pass"] = EXPECTED_PASS
          login == pc = "sidebar" /\ login_btn
      IN  /\ (~LoggedIn /\ LoggedIn') => (login /\ good)
          /\ (login /\ ~good) => (~LoggedIn' /\ session_state' = session_state)
    ]_vars

\* a login has succeeded: the session is logged in with the submitted values
C1_Witness ==
  /\ LoggedIn
  /\ "_login_user" \in DOMAIN session_state
  /\ session_state["_login_user"] = EXPECTED_USER
  /\ session_state["_login_pass"] = EXPECTED_PASS

---------------------------------------------------------------------------
(* C2 *)

\* C2: in every script run no HTTP call (videos or channels endpoint) goes out
\* and no row is rendered unless `authenticated` is true and the API key is
\* non-empty: a run of a logged-out session ends at the gate, a run without an
\* API key ends at the key guard, before any fetch.
C2_NoContentBehindTheGuards ==
  /\ Content # {} => (LoggedIn /\ API_KEY # "")
  /\ pc \in {"controls", "fetch", "subs", "batch", "subs_done"} => LoggedIn
  /\ pc \in {"fetch", "subs", "batch", "subs_done"} => API_KEY # ""
  /\ (pc = "idle" /\ ~LoggedIn) => LastEvent = "gate"
  /\ (pc = "idle" /\ LoggedIn /\ API_KEY = "") => LastEvent = "config_error"

\* a logged-out run has ended at the gate although results are still cached
C2_Witness ==
  /\ pc = "idle"
  /\ ~LoggedIn
  /\ LastEvent = "gate"
  /\ videos_cache # EmptyMap

---------------------------------------------------------------------------
(* C3 *)

\* C3: from a logged-in state the logout action sets `authenticated` to false
\* and removes `_login_user` and `_login_pass` from the session state, and a run
\* of the logged-out session shows the login form and no content.
C3_LogoutClearsAndGates ==
  /\ [][ ClickLogout =>
           /\ LoggedIn
           /\ ~LoggedIn'
           /\ "_login_user" \notin DOMAIN session_state'
           /\ "_login_pass" \notin DOMAIN session_state' ]_vars
  /\ []( (pc = "idle" /\ ~LoggedIn) =>
           /\ At("login_form") # {}
           /\ At("logout_button") = {}
           /\ At("controls") = {}
           /\ Content = {} )

\* the run after a logout has ended: the region keys show the session was once
\* logged in, the login form is up and its fields are blank again
C3_Witness ==
  /\ pc = "idle"
  /\ ~LoggedIn
  /\ "region_sel" \in DOMAIN session_state
  /\ At("login_form") # {}
  /\ session_state["_login_user"] = ""
  /\ session_state["_login_pass"] = ""

---------------------------------------------------------------------------
(* C4 and C5: get_channel_subscribers, under SpecBatch *)

\* the distinct non-empty IDs of the argument
DistinctIds == {cid \in Range(channel_ids) : cid # None /\ cid # EmptyId}

\* the channels calls of the call at hand, in the order they went out
Calls == At("GET_channels")

\* the call at place k was answered with a failure
Failed(k) == k + 1 \in DOMAIN out /\ out[k + 1].e = "warning"

\* exactly ceil(n / 50) calls, none with more than 50 IDs, each distinct
\* non-empty ID in exactly one of them
BatchedOnce ==
  /\ Cardinality(Calls) = Ceil50(Cardinality(DistinctIds))
  /\ \A k \in Calls : Len(out[k].ids) <= 50
  /\ \A cid \in DistinctIds :
       Cardinality({k \in Calls : \E j \in DOMAIN out[k].ids : out[k].ids[j] = cid}) = 1

\* C4 as claimed: for every input (duplicates, None and "" allowed) a call of
\* get_channel_subscribers issues exactly ceil(n / 50) channels calls, n the
\* number of distinct non-empty IDs, each with at most 50 IDs, every such ID in
\* exactly one call; no ID means no call and an empty map.
C4_Original ==
  pc = "subs_done" =>
    /\ BatchedOnce
    /\ DistinctIds = {} => subs_map = EmptyMap

\* C4 as amended: the same of every call that the 120 s memo of
\* get_channel_subscribers does not answer; a call with no distinct non-empty
\* ID issues no channels call and returns an empty map either way.
C4_BatchesOfFiftyOnAMiss ==
  pc = "subs_done" =>
    /\ memo = "miss" => BatchedOnce
    /\ DistinctIds = {} => (Calls = {} /\ subs_map = EmptyMap)

\* 120 distinct IDs, with empty entries among them, went out in 3 calls
C4_Witness ==
  /\ pc = "subs_done"
  /\ memo = "miss"
  /\ Cardinality(DistinctIds) = 120
  /\ Len(channel_ids) > 120
  /\ Cardinality(Calls) = 3

\* the counts a 2xx answer to the IDs of the call at place k puts in the map
Answered(k) ==
  {cid \in Range(out[k].ids) : SubscriberCount(cid).present /\ SubscriberCount(cid).numeric}

\* C5: whatever batches fail (the call throws, or answers non-2xx), the batches
\* are all attempted, in order; the map built so far, and the map returned,
\* holds the counts of every batch answered, before or after a failed batch,
\* and nothing of a failed batch.
C5_FailedBatchesAreSkipped ==
  (pc = "batch" \/ (pc = "subs_done" /\ memo = "miss")) =>
    LET got == IF pc = "batch" THEN result ELSE subs_map
        done == IF pc = "batch" THEN Min(i, Len(unique_ids)) ELSE Len(unique_ids)
        ok == {k \in Calls : ~Failed(k)}
    IN  /\ Cardinality(Calls) = Ceil50(done)
        /\ \A k \in Calls :
             LET nth == Cardinality({c \in Calls : c <= k})
             IN  out[k].ids = SubSeq(unique_ids, 50 * (nth - 1) + 1,
                                     Min(50 * nth, Len(unique_ids)))
        /\ DOMAIN got = UNION {Answered(k) : k \in ok}
        /\ \A cid \in DOMAIN got : got[cid] = SubscriberCount(cid).n
        /\ \A k \in Calls \ ok : Range(out[k].ids) \cap DOMAIN got = {}

\* three batches, the second failed, and counts of the first and of the third
\* are in the map returned
C5_Witness ==
  /\ pc = "subs_done"
  /\ memo = "miss"
  /\ Cardinality(Calls) = 3
  /\ \E a, b, c \in Calls :
       /\ a < b /\ b < c
       /\ ~Failed(a) /\ Failed(b) /\ ~Failed(c)
       /\ Range(out[a].ids) \cap DOMAIN subs_map # {}
       /\ Range(out[c].ids) \cap DOMAIN subs_map # {}

---------------------------------------------------------------------------
(* C6 - C10: the page, under Spec *)

\* the call of get_most_popular_videos of this run went to the network
Called == fetched.called /\ ~fetched.hit

C7_FailedFetchStopsTheRun ==
  /\ []( (fetched.called /\ fetched.raised # "none") =>
           /\ pc = "idle"
           /\ LastEvent = "error"
           /\ Cardinality(At("error")) = 1
           /\ Cardinality(At("GET_videos")) = 1
           /\ At("GET_channels") = {}
           /\ At("row") = {}
           /\ fetched.key \notin DOMAIN videos_cache )
  /\ [][ (pc = "fetch" /\ fetched'.raised # "none") =>
           /\ session_state' = session_state
           /\ max_count' = max_count ]_vars

\* a fetch has failed in a run that followed other runs of the same session,
\* and the session is still logged in on its region
C7_Witness ==
  /\ pc = "idle"
  /\ fetched.called
  /\ fetched.raised = "RuntimeError"
  /\ LoggedIn
  /\ session_state.region_custom = US
  /\ subscribers_cache # EmptyMap

\* override, else preset, else "KR", upper-cased
ExpectedRegion ==
  LET custom == session_state.region_custom
      sel == session_state.region_sel
  IN  Upper(IF custom # <<>> THEN custom ELSE IF sel # <<>> THEN sel ELSE KR)

\* the channel IDs of the items the fetch returned
ReturnedIds == {fetched.value[j].channelId : j \in DOMAIN fetched.value} \ {None, EmptyId}

\* the last Len(v) events before "done" are the rows of v, in order
RowsOf(v) ==
  /\ Cardinality(At("row")) = Len(v)
  /\ LastEvent = "done"
  /\ \A j \in DOMAIN v :
       LET row == out[Len(out) - 1 - Len(v) + j]
       IN  row.e = "row" /\ row.rank = j /\ row.id = v[j].id

\* one videos call, with the effective region and the selected count
OneVideosCall ==
  /\ Cardinality(At("GET_videos")) = 1
  /\ \A k \in At("GET_videos") :
       /\ out[k].regionCode = ExpectedRegion
       /\ out[k].maxResults = max_count

\* the videos call comes first, the rows come after every channels call
InOrder ==
  /\ \A k \in At("GET_videos") : \A c \in At("GET_channels") : k < c
  /\ \A c \in At("GET_channels") : \A r \in At("row") : c < r

\* the run fetched with both caches empty
Cold == fetched.called /\ fetched.cold

\* C8 as claimed, read of the runs whose videos call succeeds and returns
\* items: a logged-in run with an API key and empty caches issues one videos
\* call with the effective region and the selected count, then one or more
\* channels calls covering the channel IDs of the returned items, then one row
\* per returned item, in response order, ranked from 1.
C8_Original ==
  (Cold /\ pc = "idle" /\ fetched.raised = "none" /\ fetched.value # <<>>) =>
    /\ OneVideosCall
    /\ InOrder
    /\ Cardinality(At("GET_channels")) >= 1
    /\ UNION {Range(out[c].ids) : c \in At("GET_channels")} = ReturnedIds
    /\ RowsOf(fetched.value)

\* C8 as amended: such a run issues one videos call with the effective region
\* and the selected count; if that call fails or returns no item, no channels
\* call goes out and no row is rendered; otherwise ceil(n / 50) channels calls
\* follow (n the number of distinct non-empty channel IDs of the returned
\* items, so none when no item has one), their IDs together being those IDs,
\* and then one row per returned item, in response order, ranked from 1.  No
\* channels call precedes the videos call and no row is rendered before the
\* subscriber lookup has returned.
C8_ColdRunOrder ==
  Cold =>
    /\ OneVideosCall
    /\ InOrder
    /\ At("row") # {} => pc = "idle"
    /\ pc \in {"subs", "batch", "subs_done"} => At("row") = {}
    /\ pc = "idle" =>
         IF fetched.raised # "none" \/ fetched.value = <<>>
           THEN At("GET_channels") = {} /\ At("row") = {}
           ELSE /\ Cardinality(At("GET_channels")) = Ceil50(Cardinality(ReturnedIds))
                /\ UNION {Range(out[c].ids) : c \in At("GET_channels")} = ReturnedIds
                /\ RowsOf(fetched.value)

\* a cold run has rendered the four items of a chart after one channels call
C8_Witness ==
  /\ Cold
  /\ pc = "idle"
  /\ Len(fetched.value) = 4
  /\ Cardinality(At("GET_channels")) = 1
  /\ Cardinality(At("row")) = 4
  /\ LastEvent = "done"

\* C9: the videos fetch is answered from the memo, without a call, only if a
\* call with the same (API key, region, count) succeeded less than 60 seconds
\* before and no refresh happened since; a run started by the refresh button
\* empties both caches before its fetch, and that fetch goes to the network.
C9_MemoOnlyWithinSixtySeconds ==
  [][ /\ (pc = "controls" /\ refresh) =>
           /\ videos_cache' = EmptyMap
           /\ subscribers_cache' = EmptyMap
      /\ pc = "fetch" =>
           /\ fetched'.hit =>
                /\ <<API_KEY, region, max_count>> \in DOMAIN since_ok
                /\ At("GET_videos")' = {}
           /\ refresh =>
                /\ videos_cache = EmptyMap
                /\ subscribers_cache = EmptyMap
                /\ ~fetched'.hit
                /\ Cardinality(At("GET_videos")') = 1 ]_vars

\* a fetch was answered from the memo, and rows were rendered from it
C9_Witness ==
  /\ fetched.called
  /\ fetched.hit
  /\ At("GET_videos") = {}
  /\ At("row") # {}

\* C10: the region of every videos call is the override field if non-empty,
\* else the selected preset, else "KR", in upper case; the override field is
\* never left in lower case; and selecting a preset writes that preset's code
\* into the override field.
C10_EffectiveRegion ==
  /\ []( /\ \A k \in At("GET_videos") :
              /\ out[k].regionCode = ExpectedRegion
              /\ IsUpper(out[k].regionCode)
         /\ pc \in {"fetch", "subs", "batch", "subs_done"} =>
              (region = ExpectedRegion /\ IsUpper(region)) )
  /\ [][ SelectRegion =>
           session_state'.region_custom = session_state'.region_sel ]_vars

\* the override, typed in lower case, went out upper-cased while the preset
\* was another code
C10_Witness ==
  /\ At("GET_videos") # {}
  /\ \A k \in At("GET_videos") : out[k].regionCode = US
  /\ session_state.region_sel = KR
  /\ REGION_CODE = <<>>

=============================================================================
